---- MODULE Spec2Model ----
(***************************************************************************)
(* Model of the chat widget backend in src/main.py: the /chat handler with  *)
(* its per-session rolling history, completion-token detection and lead     *)
(* extraction, and the /lead handler that posts to the Telegram webhook.    *)
(*                                                                          *)
(* Text is modelled as a sequence of one-character strings, so that the     *)
(* string operations of the handlers (strip, in, replace, find, rfind,      *)
(* slicing, json.loads) are computed rather than assumed.  A character      *)
(* outside ASCII is written as its code point, "U+F8FF".                    *)
(***************************************************************************)
EXTENDS Integers, Sequences, FiniteSets, TLC

VARIABLES sessions, TELEGRAM_TOKEN, TELEGRAM_CHAT_ID, webhookLog, pending, log, last

vars == <<sessions, TELEGRAM_TOKEN, TELEGRAM_CHAT_ID, webhookLog, pending, log, last>>

(***************************************************************************)
(* Python values and string primitives.                                     *)
(***************************************************************************)

\* Python's None, as a tagged value so that it compares with parsed objects.
None == [tag |-> "None"]

\* The characters str.strip() removes among the ones used here.
WhiteSpace == {" ", "\t", "\n", "\r"}

Min(a, b) == IF a < b THEN a ELSE b

Max(a, b) == IF a > b THEN a ELSE b

\* s[a:b] for 0 <= a, 0 <= b (Python slice, zero-based, end exclusive).
Slice(s, a, b) == SubSeq(s, a + 1, Min(b, Len(s)))

\* s.strip()
strip(s) ==
    LET keep == {i \in 1..Len(s) : s[i] \notin WhiteSpace}
    IN  IF keep = {} THEN <<>>
        ELSE SubSeq(s, CHOOSE i \in keep : \A j \in keep : i <= j,
                       CHOOSE i \in keep : \A j \in keep : i >= j)

\* True when sub occurs in s at zero-based offset i.
OccursAt(sub, s, i) ==
    /\ i + Len(sub) <= Len(s)
    /\ \A k \in 1..Len(sub) : s[i + k] = sub[k]

\* sub in s
Contains(sub, s) == \E i \in 0..Len(s) : OccursAt(sub, s, i)

\* s.find(c) for a one-character c: zero-based index of the first c, or -1.
find(s, c) ==
    LET at == {i \in 1..Len(s) : s[i] = c}
    IN  IF at = {} THEN -1 ELSE (CHOOSE i \in at : \A j \in at : i <= j) - 1

\* s.rfind(c) for a one-character c: zero-based index of the last c, or -1.
rfind(s, c) ==
    LET at == {i \in 1..Len(s) : s[i] = c}
    IN  IF at = {} THEN -1 ELSE (CHOOSE i \in at : \A j \in at : i >= j) - 1

RECURSIVE replaceFrom(_, _, _)
\* The scan of s.replace(old, ""): left to right from zero-based offset i,
\* each occurrence dropped and the scan resumed after it.
replaceFrom(s, old, i) ==
    IF i >= Len(s) THEN <<>>
    ELSE IF OccursAt(old, s, i) THEN replaceFrom(s, old, i + Len(old))
    ELSE <<s[i + 1]>> \o replaceFrom(s, old, i + 1)

\* s.replace(old, "") for a non-empty old.
replace(s, old) == replaceFrom(s, old, 0)

(***************************************************************************)
(* json.loads, for documents written with the characters                    *)
(*   { } " : , space tab newline, the digits, and letters that spell no     *)
(* JSON literal and no exponent (no e E t f n N I u l . - [ ] \).           *)
(* Over that alphabet a JSON value is an object, a string without escapes   *)
(* or an unsigned integer, which is what the decoder below accepts.         *)
(* Positions are one-based indices into the text.                           *)
(***************************************************************************)

JsonWhiteSpace == {" ", "\t", "\n", "\r"}

Digits == {"0", "1", "2", "3", "4", "5", "6", "7", "8", "9"}

\* Characters a JSON string may not hold unescaped (strict mode), plus the
\* escape character itself, which the documents here never use.
StringForbidden == {"\t", "\n", "\r", "\\"}

JsonFail == [ok |-> FALSE, val |-> None, next |-> 0]

DigitValue(c) == CHOOSE n \in 0..9 : <<"0","1","2","3","4","5","6","7","8","9">>[n + 1] = c

\* First position >= i that holds no whitespace (Len(s) + 1 when there is none).
skip_ws(s, i) ==
    LET stop == {j \in i..(Len(s) + 1) : j = Len(s) + 1 \/ s[j] \notin JsonWhiteSpace}
    IN  CHOOSE j \in stop : \A k \in stop : j <= k

\* A string whose opening quote is at position i.
parse_string(s, i) ==
    LET close == {j \in (i + 1)..Len(s) : s[j] = "\""}
    IN  IF close = {} THEN JsonFail
        ELSE LET j == CHOOSE x \in close : \A y \in close : x <= y
             IN  IF \E k \in (i + 1)..(j - 1) : s[k] \in StringForbidden
                 THEN JsonFail
                 ELSE [ok |-> TRUE,
                       val |-> [tag |-> "str", str |-> SubSeq(s, i + 1, j - 1)],
                       next |-> j + 1]

RECURSIVE digitsValue(_)
digitsValue(d) ==
    IF d = <<>> THEN 0
    ELSE 10 * digitsValue(SubSeq(d, 1, Len(d) - 1)) + DigitValue(d[Len(d)])

\* An integer whose first digit is at position i: 0, or a run of digits that
\* does not start with 0.
parse_number(s, i) ==
    IF s[i] = "0" THEN [ok |-> TRUE, val |-> [tag |-> "int", int |-> 0], next |-> i + 1]
    ELSE LET stop == {j \in (i + 1)..(Len(s) + 1) : j = Len(s) + 1 \/ s[j] \notin Digits}
             j    == CHOOSE x \in stop : \A y \in stop : x <= y
         IN  [ok |-> TRUE,
              val |-> [tag |-> "int", int |-> digitsValue(SubSeq(s, i, j - 1))],
              next |-> j]

RECURSIVE parse_value(_, _), parse_members(_, _, _)
\* The value that starts at position i.
parse_value(s, i) ==
    IF i > Len(s) THEN JsonFail
    ELSE IF s[i] = "\"" THEN parse_string(s, i)
    ELSE IF s[i] \in Digits THEN parse_number(s, i)
    ELSE IF s[i] = "{" THEN
        LET j == skip_ws(s, i + 1)
        IN  IF j <= Len(s) /\ s[j] = "}"
            THEN [ok |-> TRUE, val |-> [tag |-> "dict", items |-> <<>>], next |-> j + 1]
            ELSE parse_members(s, j, <<>>)
    ELSE JsonFail

\* The members of an object from position i (where a key must start) to its
\* closing brace; acc maps the keys read so far to their values, a repeated
\* key keeping its last value.
parse_members(s, i, acc) ==
    IF i > Len(s) \/ s[i] # "\"" THEN JsonFail
    ELSE LET key == parse_string(s, i)
         IN  IF ~key.ok THEN JsonFail
             ELSE LET c == skip_ws(s, key.next)
                  IN  IF c > Len(s) \/ s[c] # ":" THEN JsonFail
                      ELSE LET v == parse_value(s, skip_ws(s, c + 1))
                           IN  IF ~v.ok THEN JsonFail
                               ELSE LET e  == skip_ws(s, v.next)
                                        k  == key.val.str
                                        m  == [x \in DOMAIN acc \cup {k} |->
                                                 IF x = k THEN v.val ELSE acc[x]]
                                    IN  IF e > Len(s) THEN JsonFail
                                        ELSE IF s[e] = "}"
                                        THEN [ok |-> TRUE,
                                              val |-> [tag |-> "dict", items |-> m],
                                              next |-> e + 1]
                                        ELSE IF s[e] = ","
                                        THEN parse_members(s, skip_ws(s, e + 1), m)
                                        ELSE JsonFail

\* json.loads(s): ok is FALSE where json.loads raises JSONDecodeError.
json_loads(s) ==
    LET v == parse_value(s, skip_ws(s, 1))
    IN  IF v.ok /\ skip_ws(s, v.next) = Len(s) + 1
        THEN [ok |-> TRUE, val |-> v.val]
        ELSE [ok |-> FALSE, val |-> None]

(***************************************************************************)
(* The /chat handler.                                                       *)
(*                                                                          *)
(* The two calls to the hosted model are the handler's inputs besides the   *)
(* request: chatOut is what chat.send_message / response.text did, extOut   *)
(* what extractor_model.generate_content / result.text did.  Each is a      *)
(* record [kind, data]: kind "raise" (the call raised, data the exception   *)
(* text), "notext" (the call returned but .text raised, data the exception  *)
(* text) or "text" (data the text).                                         *)
(***************************************************************************)

MAX_HISTORY == 20

LEAD_COMPLETE == <<"[","L","E","A","D","_","C","O","M","P","L","E","T","E","]">>

MessageCannotBeEmpty ==
    <<"M","e","s","s","a","g","e"," ","c","a","n","n","o","t"," ","b","e"," ","e","m","p","t","y">>

Overloaded ==
    <<"T","h","e"," ","A","I"," ","i","s"," ","c","u","r","r","e","n","t","l","y"," ",
      "o","v","e","r","l","o","a","d","e","d","."," ","P","l","e","a","s","e"," ",
      "t","r","y"," ","a","g","a","i","n"," ","i","n"," ","a"," ","f","e","w"," ",
      "s","e","c","o","n","d","s",".">>

InternalServerError ==
    <<"I","n","t","e","r","n","a","l"," ","S","e","r","v","e","r"," ","E","r","r","o","r">>

ResourceExhausted ==
    <<"R","e","s","o","u","r","c","e"," ","e","x","h","a","u","s","t","e","d">>

\* str(HTTPException(status_code=400, detail=d)).  The class comes from the
\* installed framework: releases that define __str__ give "400: " followed by
\* d (strMode "status_detail"), the others give "" (strMode "empty").
HTTPException400Str(d, strMode) ==
    IF strMode = "status_detail" THEN <<"4", "0", "0", ":", " ">> \o d ELSE <<>>

HTTPExceptionStrModes == {"status_detail", "empty"}

\* sessions.get(sid, []) seen as a list of turns.
Turns(S, sid) == IF sid \in DOMAIN S THEN S[sid] ELSE <<>>

\* if session_id not in sessions: sessions[session_id] = []
init_session(S, sid) ==
    IF sid \in DOMAIN S THEN S
    ELSE [x \in DOMAIN S \cup {sid} |-> IF x = sid THEN <<>> ELSE S[x]]

\* Variant: the trim is left out.
trim_history_never(h) == h

\* Variant: the trim keeps the oldest turns, h[:MAX_HISTORY].
trim_history_head(h) ==
    IF Len(h) > MAX_HISTORY THEN SubSeq(h, 1, MAX_HISTORY) ELSE h

\* h[-MAX_HISTORY:] when len(h) > MAX_HISTORY, h otherwise.
trim_history(h) ==
    IF Len(h) > MAX_HISTORY THEN SubSeq(h, Len(h) - MAX_HISTORY + 1, Len(h)) ELSE h

\* The two appends and the trim on sessions[sid] (sid is a key of S).
update_history(S, sid, user_message, reply_text) ==
    [S EXCEPT ![sid] = trim_history(
        @ \o <<[role |-> "user",  parts |-> <<user_message>>],
               [role |-> "model", parts |-> <<reply_text>>]>>)]

\* Variant: the except clause of the extraction leaves an empty dict.
extract_lead_default(extOut) ==
    IF extOut.kind # "text" THEN [tag |-> "dict", items |-> <<>>]
    ELSE LET text  == strip(extOut.data)
             start == find(text, "{")
             end   == rfind(text, "}") + 1
         IN  IF start # -1 /\ end # -1
             THEN LET parsed == json_loads(Slice(text, start, end))
                  IN  IF parsed.ok THEN parsed.val ELSE [tag |-> "dict", items |-> <<>>]
             ELSE None

\* The inner try block: the value left in updated_lead_data by the
\* extraction call; every exception inside it is caught and leaves None.
extract_lead(extOut) ==
    IF extOut.kind # "text" THEN None
    ELSE LET text  == strip(extOut.data)
             start == find(text, "{")
             end   == rfind(text, "}") + 1
         IN  IF start # -1 /\ end # -1
             THEN LET parsed == json_loads(Slice(text, start, end))
                  IN  IF parsed.ok THEN parsed.val ELSE None
             ELSE None

\* if not user_message: the handler goes on to call the chat model only for
\* a message that is not empty once stripped.
calls_send_message(message) == strip(message) # <<>>

\* Variant: the extraction runs for every reply, token or not.
calls_generate_content_always(chatOut) == chatOut.kind = "text"

\* if "[LEAD_COMPLETE]" in reply_text: the handler calls the extractor only
\* when the chat model returned a text that holds the token.
calls_generate_content(chatOut) ==
    chatOut.kind = "text" /\ Contains(LEAD_COMPLETE, chatOut.data)

\* What a call that was not made did.
NotCalled == [kind |-> "notcalled", data |-> <<>>]

\* updated_lead_data at the end of the handler.
lead_for(chatOut, extOut) ==
    IF calls_generate_content(chatOut) THEN extract_lead(extOut) ELSE None

\* reply_text at the end of the handler.
reply_for(chatOut) ==
    IF Contains(LEAD_COMPLETE, chatOut.data)
    THEN strip(replace(chatOut.data, LEAD_COMPLETE))
    ELSE chatOut.data

\* The calls to the hosted model made by the handler, with what they did.
calls_for(message, chatOut, extOut) ==
    IF ~calls_send_message(message) THEN <<>>
    ELSE IF calls_generate_content(chatOut)
    THEN <<[fn |-> "send_message", out |-> chatOut],
           [fn |-> "generate_content", out |-> extOut]>>
    ELSE <<[fn |-> "send_message", out |-> chatOut]>>

\* The body of the outer try block.  raised tells whether an exception left
\* it, error_msg is then str(e); otherwise reply and lead are the fields of
\* the ChatResponse.  sessions is the mapping as the block leaves it.
chat_try(S, session_id, message, chatOut, extOut, strMode) ==
    LET user_message == strip(message)
    IN  IF user_message = <<>>
        THEN [raised |-> TRUE, error_msg |-> HTTPException400Str(MessageCannotBeEmpty, strMode),
              sessions |-> S, reply |-> <<>>, lead |-> None]
        ELSE IF chatOut.kind # "text"
        THEN [raised |-> TRUE, error_msg |-> chatOut.data,
              sessions |-> init_session(S, session_id),
              reply |-> <<>>, lead |-> None]
        ELSE [raised |-> FALSE, error_msg |-> <<>>,
              sessions |-> update_history(init_session(S, session_id), session_id,
                                          user_message, reply_for(chatOut)),
              reply |-> reply_for(chatOut),
              lead |-> lead_for(chatOut, extOut)]

\* Variant: only "429" is looked for in the error text.
error_status_429_only(error_msg) ==
    IF Contains(<<"4", "2", "9">>, error_msg) THEN 429 ELSE 500

\* The except clause: the status of the HTTPException raised for str(e).
error_status(error_msg) ==
    IF Contains(<<"4", "2", "9">>, error_msg) \/ Contains(ResourceExhausted, error_msg)
    THEN 429 ELSE 500

error_detail(error_msg) ==
    IF error_status(error_msg) = 429 THEN Overloaded ELSE InternalServerError

\* Variant: the handler posts a completed lead to the webhook itself.
chat_endpoint_forwarding(S, session_id, message, chatOut, extOut, strMode) ==
    LET r == chat_try(S, session_id, message, chatOut, extOut, strMode)
    IN  IF r.raised
        THEN [status |-> error_status(r.error_msg), detail |-> error_detail(r.error_msg),
              reply |-> <<>>, lead |-> None, sessions |-> r.sessions,
              calls |-> calls_for(message, chatOut, extOut), posts |-> <<>>]
        ELSE [status |-> 200, detail |-> <<>>,
              reply |-> r.reply, lead |-> r.lead, sessions |-> r.sessions,
              calls |-> calls_for(message, chatOut, extOut),
              posts |-> IF r.lead = None THEN <<>> ELSE <<[lead |-> r.lead, out |-> "ok"]>>]

\* Variant: the user turn is stored before the model is called, so that a
\* failing call leaves it in the history.
chat_endpoint_early_append(S, session_id, message, chatOut, extOut, strMode) ==
    LET r == chat_try(S, session_id, message, chatOut, extOut, strMode)
    IN  IF r.raised
        THEN [status |-> error_status(r.error_msg), detail |-> error_detail(r.error_msg),
              reply |-> <<>>, lead |-> None,
              sessions |-> IF session_id \in DOMAIN r.sessions
                           THEN [r.sessions EXCEPT ![session_id] =
                                   Append(@, [role |-> "user", parts |-> <<strip(message)>>])]
                           ELSE r.sessions,
              calls |-> calls_for(message, chatOut, extOut), posts |-> <<>>]
        ELSE [status |-> 200, detail |-> <<>>,
              reply |-> r.reply, lead |-> r.lead, sessions |-> r.sessions,
              calls |-> calls_for(message, chatOut, extOut), posts |-> <<>>]

\* chat_endpoint: the response, the mapping afterwards, the calls made to
\* the hosted model and the webhook POSTs made (the handler makes none).
chat_endpoint(S, session_id, message, chatOut, extOut, strMode) ==
    LET r == chat_try(S, session_id, message, chatOut, extOut, strMode)
    IN  IF r.raised
        THEN [status |-> error_status(r.error_msg), detail |-> error_detail(r.error_msg),
              reply |-> <<>>, lead |-> None, sessions |-> r.sessions,
              calls |-> calls_for(message, chatOut, extOut), posts |-> <<>>]
        ELSE [status |-> 200, detail |-> <<>>,
              reply |-> r.reply, lead |-> r.lead, sessions |-> r.sessions,
              calls |-> calls_for(message, chatOut, extOut), posts |-> <<>>]

(***************************************************************************)
(* The /lead handler.                                                       *)
(*                                                                          *)
(* An environment variable is None (unset) or [tag |-> "str", str |-> s].   *)
(* The handler runs up to `await client.post(...)`, where it is suspended   *)
(* with the POST sent, and goes on when the POST has returned or raised     *)
(* (postOut "ok" or "raise"); other requests are handled in between.        *)
(***************************************************************************)

EnvStr(s) == [tag |-> "str", str |-> s]

\* not v, for an environment value.
Falsy(v) == v.tag = "None" \/ v.str = <<>>

LeadHeader ==
    <<"U+F8FF","U+00FC","U+00EE","U+2022"," ",
      "*","N","e","w"," ","L","e","a","d"," ","U+201A","U+00C4","U+00EE"," ",
      "A","g","e","n","t","i","c","a"," ","W","e","b","*","\n","\n">>

NameLabel == <<"U+F8FF","U+00FC","U+00EB","U+00A7"," ","*","N","a","m","e",":","*"," ">>

ContactLabel ==
    <<"U+F8FF","U+00FC","U+00EC","U+00FB"," ","*","C","o","n","t","a","c","t",":","*"," ">>

MessageLabel ==
    <<"U+F8FF","U+00FC","U+00ED","U+00A8"," ","*","M","e","s","s","a","g","e",":","*"," ">>

PageLabel == <<"U+F8FF","U+00FC","U+00EE","U+00F3"," ","*","P","a","g","e",":","*"," ">>

TimeLabel == <<"U+201A","U+00E8","U+221E"," ","*","T","i","m","e",":","*"," ">>

BotUrlPrefix ==
    <<"h","t","t","p","s",":","/","/","a","p","i",".","t","e","l","e","g","r","a","m",".",
      "o","r","g","/","b","o","t">>

SendMessagePath == <<"/","s","e","n","d","M","e","s","s","a","g","e">>

DigitChar(n) == <<"0","1","2","3","4","5","6","7","8","9">>[n + 1]

\* n written with at least two digits (%m, %d, %H, %M, %S).
TwoDigits(n) == <<DigitChar((n \div 10) % 10), DigitChar(n % 10)>>

\* n written with four digits (%Y).
FourDigits(n) == TwoDigits(n \div 100) \o TwoDigits(n % 100)

\* datetime.now().strftime("%Y-%m-%d %H:%M:%S") for the clock reading
\* [year, month, day, hour, minute, second].
strftime(now) ==
    FourDigits(now.year) \o <<"-">> \o TwoDigits(now.month) \o <<"-">> \o TwoDigits(now.day)
      \o <<" ">> \o TwoDigits(now.hour) \o <<":">> \o TwoDigits(now.minute)
      \o <<":">> \o TwoDigits(now.second)

\* The text of the Telegram message for a lead at the given timestamp.
lead_text(lead, timestamp) ==
    LeadHeader
      \o NameLabel    \o lead.name     \o <<"\n">>
      \o ContactLabel \o lead.contact  \o <<"\n">>
      \o MessageLabel \o lead.message  \o <<"\n">>
      \o PageLabel    \o lead.page_url \o <<"\n", "\n">>
      \o TimeLabel    \o timestamp

\* str(v) for an environment value.
EnvText(v) == IF v.tag = "None" THEN <<"N","o","n","e">> ELSE v.str

\* Variant: the credentials check uses "and", so that one missing credential
\* does not stop the POST.
send_to_telegram_and(lead, now, token, chat_id) ==
    IF Falsy(token) /\ Falsy(chat_id) THEN <<>>
    ELSE <<[url     |-> BotUrlPrefix \o EnvText(token) \o SendMessagePath,
            chat_id |-> EnvText(chat_id),
            text    |-> lead_text(lead, strftime(now)),
            parse_mode |-> "Markdown"]>>

\* send_to_telegram up to its await: the POSTs it sends (none or one), each
\* with its url and its JSON payload.
send_to_telegram(lead, now, token, chat_id) ==
    IF Falsy(token) \/ Falsy(chat_id) THEN <<>>
    ELSE <<[url     |-> BotUrlPrefix \o token.str \o SendMessagePath,
            chat_id |-> chat_id.str,
            text    |-> lead_text(lead, strftime(now)),
            parse_mode |-> "Markdown"]>>

\* The rest of send_to_telegram and of lead_endpoint: the response, for what
\* the POST did ("none" when no POST was sent).  An exception of the POST is
\* caught and printed.
lead_response(postOut) == [status |-> 200, body |-> "received"]

(***************************************************************************)
(* Inputs.                                                                  *)
(***************************************************************************)

MaxExchanges == 2

MaxPosts == 2

MaxRichExchanges == 2

MaxTrimExchanges == 11

SessionIds == {"s1", "s2"}

Text(s) == [kind |-> "text", data |-> s]

Raise(s) == [kind |-> "raise", data |-> s]

NoText(s) == [kind |-> "notext", data |-> s]

Timeout == <<"t","i","m","e","o","u","t">>

Blocked == <<"b","l","o","c","k","e","d">>

\* Inputs of the whole service: a few of each kind.
Messages == { <<" ">>, <<"h", "i">> }

ChatOutcomes ==
    { Raise(Timeout),
      Text(<<"o","k">>),
      Text(<<"[","L","E","A","D","_","C","O","M","P","L","E","T","E","]"," ","T","h","x">>) }

ExtractOutcomes ==
    { Text(<<"s","o","r","r","y">>),
      Text(<<"{","\"","k","\"",":","\"","v","\"","}">>) }

EnvTokens == {None, EnvStr(<<>>), EnvStr(<<"T","7">>)}

EnvChatIds == {None, EnvStr(<<"4","2">>)}

LeadRequests ==
    { [name     |-> <<"U","n","k","n","o","w","n">>,
       contact  |-> <<"U","n","k","n","o","w","n">>,
       message  |-> <<"I","n","q","u","i","r","e","d"," ","v","i","a"," ","C","h","a","t">>,
       page_url |-> <<"U","n","k","n","o","w","n">>],
      [name     |-> <<"B","o">>,
       contact  |-> <<"b","@","x">>,
       message  |-> <<"d","e","m","o">>,
       page_url |-> <<"/","p">>] }

\* Readings of the clock, datetime.now().
Clocks ==
    { [year |-> 2024, month |-> 1, day |-> 2, hour |-> 13, minute |-> 4, second |-> 5] }

PostOutcomes == {"ok", "raise"}

\* Inputs of single /chat requests: the shapes of message, of model reply and
\* of extractor output that the handler tells apart.
RichMessages == { <<>>, <<" ", "\n">>, <<" ", "h", "i", "\n">> }

RichChatOutcomes ==
    { Raise(<<"4","2","9"," ","q","u","o","t","a">>),
      Raise(ResourceExhausted),
      Raise(<<"r","e","s","o","u","r","c","e"," ","e","x","h","a","u","s","t","e","d">>),
      Raise(Timeout),
      NoText(Blocked),
      Text(<<"o","k">>),
      Text(<<" ","o","k"," ">>),
      Text(<<"[","L","E","A","D","_","C","O","M","P","L","E","T","E","]"," ","T","h","x","\n">>),
      Text(<<"[","L","E","A","D","_","[","L","E","A","D","_","C","O","M","P","L","E","T","E","]",
             "C","O","M","P","L","E","T","E","]">>) }

RichExtractOutcomes ==
    { Raise(<<"4","2","9">>),
      NoText(Blocked),
      Text(<<"s","o","r","r","y">>),
      Text(<<"{","\"","k","\"",":","\"","v","\"","}">>),
      Text(<<" ","a"," ","{","\"","k","\"",":"," ","7","}"," ","b","\n">>),
      Text(<<"{","\"","k","\"",":","\"","v","\"">>),
      Text(<<"}"," ","{">>),
      Text(<<"{","k","}">>) }

\* Inputs of long conversations.
TrimMessages == { <<"a">>, <<" ", "b">>, <<" ">> }

TrimChatOutcomes == { Text(<<"o","k">>) }

TrimExtractOutcomes == { Raise(Timeout) }

(***************************************************************************)
(* State.                                                                   *)
(*   sessions          the sessions dict                                    *)
(*   TELEGRAM_TOKEN, TELEGRAM_CHAT_ID   the environment values read at      *)
(*                     import time                                          *)
(*   webhookLog        the POSTs sent to the webhook so far                 *)
(*   pending           the /lead requests suspended in their POST, each     *)
(*                     with the positions of its POSTs in webhookLog        *)
(*   log               per session id, the successful exchanges so far      *)
(*                     (history variable)                                   *)
(*   last              the last request answered, with its response         *)
(***************************************************************************)

RECURSIVE SumLen(_)
SumLen(ids) ==
    IF ids = {} THEN 0
    ELSE LET i == CHOOSE x \in ids : TRUE IN Len(log[i]) + SumLen(ids \ {i})

TotalExchanges == SumLen(SessionIds)

NoRequest ==
    [op |-> "none", request |-> <<>>, calls |-> <<>>, status |-> 0,
     detail |-> <<>>, reply |-> <<>>, lead |-> None, body |-> "", posts |-> <<>>]

Init ==
    /\ sessions = <<>>
    /\ TELEGRAM_TOKEN \in EnvTokens
    /\ TELEGRAM_CHAT_ID \in EnvChatIds
    /\ webhookLog = <<>>
    /\ pending = {}
    /\ log = [sid \in SessionIds |-> <<>>]
    /\ last = NoRequest

\* One /chat request, handled from start to end (the handler never awaits).
\* What a call to the hosted model did is drawn only when the handler makes
\* the call.
ChatRequest(msgs, chatOuts, extOuts, maxExchanges) ==
    /\ TotalExchanges < maxExchanges
    /\ \E sid \in SessionIds, message \in msgs :
       \E chatOut \in (IF calls_send_message(message) THEN chatOuts ELSE {NotCalled}) :
       \E extOut \in (IF calls_generate_content(chatOut) THEN extOuts ELSE {NotCalled}) :
       \E strMode \in (IF calls_send_message(message) THEN {"unused"}
                                                        ELSE HTTPExceptionStrModes) :
       \E r \in {chat_endpoint(sessions, sid, message, chatOut, extOut, strMode)} :
             /\ sessions' = r.sessions
             /\ webhookLog' = webhookLog \o r.posts
             /\ log' = IF r.status = 200
                       THEN [log EXCEPT ![sid] = Append(@, <<strip(message), r.reply>>)]
                       ELSE log
             /\ last' = [op |-> "chat",
                         request |-> [session_id |-> sid, message |-> message],
                         calls |-> r.calls, status |-> r.status, detail |-> r.detail,
                         reply |-> r.reply, lead |-> r.lead, body |-> "",
                         posts |-> r.posts]
    /\ UNCHANGED <<pending, TELEGRAM_TOKEN, TELEGRAM_CHAT_ID>>

\* A /lead request arrives and is handled up to its first suspension: with
\* a credential missing it is answered at once; otherwise its POST is sent
\* and the handler waits for it.
LeadRequest ==
    /\ Len(webhookLog) < MaxPosts
    /\ \E lead \in LeadRequests, now \in Clocks :
       \E posts \in {send_to_telegram(lead, now, TELEGRAM_TOKEN, TELEGRAM_CHAT_ID)} :
          IF posts = <<>>
          THEN \E r \in {lead_response("none")} :
                 /\ last' = [op |-> "lead", request |-> lead,
                             calls |-> <<>>, status |-> r.status, detail |-> <<>>,
                             reply |-> <<>>, lead |-> None, body |-> r.body,
                             posts |-> <<>>]
                 /\ UNCHANGED <<webhookLog, pending>>
          ELSE /\ webhookLog' = webhookLog \o posts
               /\ pending' = pending \cup
                    {[request |-> lead,
                      posts |-> [i \in 1..Len(posts) |-> Len(webhookLog) + i]]}
               /\ UNCHANGED last
    /\ UNCHANGED <<sessions, log, TELEGRAM_TOKEN, TELEGRAM_CHAT_ID>>

\* The POST of a suspended /lead request returns or raises, and the request
\* is answered.
LeadRespond ==
    /\ \E p \in pending, postOut \in PostOutcomes :
       \E r \in {lead_response(postOut)} :
          /\ pending' = pending \ {p}
          /\ last' = [op |-> "lead", request |-> p.request,
                      calls |-> <<>>, status |-> r.status, detail |-> <<>>,
                      reply |-> <<>>, lead |-> None, body |-> r.body,
                      posts |-> [i \in 1..Len(p.posts) |->
                                   [post |-> webhookLog[p.posts[i]], out |-> postOut]]]
    /\ UNCHANGED <<sessions, log, webhookLog, TELEGRAM_TOKEN, TELEGRAM_CHAT_ID>>

Chat == ChatRequest(Messages, ChatOutcomes, ExtractOutcomes, MaxExchanges)

Next == Chat \/ LeadRequest \/ LeadRespond

Spec == Init /\ [][Next]_vars

\* Single /chat requests over the rich inputs; the webhook is not configured.
ChatInit ==
    /\ Init
    /\ TELEGRAM_TOKEN = None
    /\ TELEGRAM_CHAT_ID = None

RichChat == ChatRequest(RichMessages, RichChatOutcomes, RichExtractOutcomes, MaxRichExchanges)

ChatNext == RichChat

ChatSpec == ChatInit /\ [][ChatNext]_vars

\* Long conversations over few distinct inputs, to reach the trimming of the
\* history; the webhook is not configured.
TrimChat == ChatRequest(TrimMessages, TrimChatOutcomes, TrimExtractOutcomes, MaxTrimExchanges)

TrimNext == TrimChat

TrimSpec == ChatInit /\ [][TrimNext]_vars

(***************************************************************************)
(* Properties.                                                              *)
(***************************************************************************)

LastChat == last.op = "chat"

LastSid == last.request.session_id

\* The last request reached the chat model and this is what the model did.
LastChatOut == last.calls[1].out

UserTurn(text) == [role |-> "user", parts |-> <<text>>]

ModelTurn(text) == [role |-> "model", parts |-> <<text>>]

Configured == ~Falsy(TELEGRAM_TOKEN) /\ ~Falsy(TELEGRAM_CHAT_ID)

\* The last n elements of a sequence (all of them when it has fewer).
LastN(q, n) == SubSeq(q, Max(1, Len(q) - n + 1), Len(q))

RECURSIVE TurnsOf(_)
\* The turns a sequence of exchanges <<user text, model text>> is stored as.
TurnsOf(exchanges) ==
    IF exchanges = <<>> THEN <<>>
    ELSE <<UserTurn(exchanges[1][1]), ModelTurn(exchanges[1][2])>>
           \o TurnsOf(Tail(exchanges))

\* C1: at the end of every /chat request, successful or failing, every
\* session's stored history holds at most MAX_HISTORY (20) turns.
C1_HistoryBounded ==
    \A sid \in DOMAIN sessions : Len(sessions[sid]) <= MAX_HISTORY

\* A session that had more than ten successful exchanges holds exactly 20 turns.
C1_Witness ==
    \E sid \in DOMAIN sessions :
        Len(log[sid]) * 2 > MAX_HISTORY /\ Len(sessions[sid]) = MAX_HISTORY

\* C2: a /chat request whose model reply does not contain the completion
\* token succeeds with no lead data in the response, whatever the history.
C2_NoTokenNoLead ==
    (/\ LastChat
     /\ last.calls # <<>>
     /\ LastChatOut.kind = "text"
     /\ ~Contains(LEAD_COMPLETE, LastChatOut.data))
    => (last.status = 200 /\ last.lead = None /\ Len(last.calls) = 1)

\* A reply without the token on a session that already holds two exchanges,
\* one of which came from a reply with the token.
C2_Witness ==
    /\ LastChat
    /\ last.calls # <<>>
    /\ LastChatOut.kind = "text"
    /\ ~Contains(LEAD_COMPLETE, LastChatOut.data)
    /\ Len(sessions[LastSid]) >= 4
    /\ sessions[LastSid][2] = ModelTurn(<<"T","h","x">>)

\* C3: a /chat request whose message is empty once stripped is answered with
\* status 400 "Message cannot be empty", the model not being called.
C3_EmptyMessageIs400 ==
    (LastChat /\ strip(last.request.message) = <<>>)
    => (last.status = 400 /\ last.detail = MessageCannotBeEmpty /\ last.calls = <<>>)

\* C4: when the chat model call raises, the request ends with 429 if the
\* error text contains "429" or "Resource exhausted" and with 500 otherwise,
\* and the model is called exactly once for the request.
C4_ModelErrorStatus ==
    (LastChat /\ last.calls # <<>> /\ LastChatOut.kind = "raise")
    => /\ last.status =
            IF \/ Contains(<<"4","2","9">>, LastChatOut.data)
               \/ Contains(ResourceExhausted, LastChatOut.data)
            THEN 429 ELSE 500
       /\ Len(last.calls) = 1

\* The model raised "Resource exhausted" (no "429" in it): status 429.
C4_Witness ==
    /\ LastChat
    /\ last.calls # <<>>
    /\ LastChatOut = Raise(ResourceExhausted)
    /\ last.status = 429

\* C5 as stated: with the webhook configured, a /chat request that extracts
\* a completed lead makes a webhook POST for it itself.  (The handler runs to
\* its end without awaiting and schedules nothing to run after it, so the
\* POSTs it causes are the ones made by the time it returns.)
C5_ChatForwardsLead ==
    (LastChat /\ last.lead # None /\ Configured) => last.posts # <<>>

\* C5, amended: a /chat request makes no webhook POST, also when it extracts
\* a completed lead (which it only returns in the response); every webhook
\* POST is sent by a /lead request, in the step in which it arrives.
C5_PostsOnlyByLeadRequest ==
    [][webhookLog' # webhookLog =>
         /\ Cardinality(pending') = Cardinality(pending) + 1
         /\ sessions' = sessions
         /\ last' = last]_vars

\* A /chat request has extracted a lead, the webhook is configured, and
\* nothing was posted.
C5_Witness ==
    /\ LastChat
    /\ last.lead # None
    /\ Configured
    /\ webhookLog = <<>>

\* C6: every /lead request is answered {"status": "received"}; it makes
\* exactly one webhook POST, whose text carries the request's name, contact,
\* message and page_url, when both credentials are set, and none when either
\* is missing; the POST raising changes nothing of this.
C6_LeadRequest ==
    (last.op = "lead")
    => /\ last.status = 200
       /\ last.body = "received"
       /\ Configured =>
            /\ Len(last.posts) = 1
            /\ last.posts[1].post.chat_id = TELEGRAM_CHAT_ID.str
            /\ Contains(NameLabel \o last.request.name \o <<"\n">>, last.posts[1].post.text)
            /\ Contains(ContactLabel \o last.request.contact \o <<"\n">>,
                        last.posts[1].post.text)
            /\ Contains(MessageLabel \o last.request.message \o <<"\n">>,
                        last.posts[1].post.text)
            /\ Contains(PageLabel \o last.request.page_url \o <<"\n">>,
                        last.posts[1].post.text)
       /\ ~Configured => last.posts = <<>>

\* A /lead request is answered after its POST raised, while another /lead
\* request, which arrived later, is still waiting for its POST.
C6_Witness ==
    /\ last.op = "lead"
    /\ Len(last.posts) = 1
    /\ last.posts[1].out = "raise"
    /\ last.posts[1].post = webhookLog[1]
    /\ Len(webhookLog) = 2
    /\ pending # {}
    /\ last.status = 200

\* The extraction step failed as C7 lists: the call or its .text raised, or
\* the output has no "{", or no "}" after the first "{", or the text from
\* the first "{" through the last "}" is not valid JSON.
ExtractionFails(extOut) ==
    \/ extOut.kind # "text"
    \/ find(extOut.data, "{") = -1
    \/ rfind(extOut.data, "}") < find(extOut.data, "{")
    \/ ~json_loads(Slice(extOut.data, find(extOut.data, "{"),
                         rfind(extOut.data, "}") + 1)).ok

\* C7: when the reply holds the token and the extraction step fails, the
\* request still succeeds with the reply and no lead, and the user turn and
\* the model turn are the last two turns of the session's history.
C7_ExtractionBestEffort ==
    (LastChat /\ Len(last.calls) = 2 /\ ExtractionFails(last.calls[2].out))
    => /\ last.status = 200
       /\ last.lead = None
       /\ last.reply = strip(replace(LastChatOut.data, LEAD_COMPLETE))
       /\ LastSid \in DOMAIN sessions
       /\ Len(sessions[LastSid]) >= 2
       /\ LastN(sessions[LastSid], 2) =
            <<UserTurn(strip(last.request.message)), ModelTurn(last.reply)>>

\* The extractor's output had a "{" and still failed to parse.
C7_Witness ==
    /\ LastChat
    /\ Len(last.calls) = 2
    /\ last.calls[2].out.kind = "text"
    /\ find(last.calls[2].out.data, "{") # -1
    /\ ExtractionFails(last.calls[2].out)
    /\ last.status = 200

\* C8: the reply returned by /chat and the model turns stored in the session
\* histories never contain "[LEAD_COMPLETE]".
C8_TokenRemoved ==
    /\ (LastChat /\ last.status = 200) => ~Contains(LEAD_COMPLETE, last.reply)
    /\ \A sid \in DOMAIN sessions : \A i \in 1..Len(sessions[sid]) :
          sessions[sid][i].role = "model"
              => ~Contains(LEAD_COMPLETE, sessions[sid][i].parts[1])

\* C9: each session's history is the turns of its most recent min(k, 10)
\* successful exchanges, in order, a user turn (the stripped message) then a
\* model turn (the reply) for each; so it has even length and alternates
\* user/model from a user turn, and depends on that session's exchanges only.
C9_RollingHistory ==
    \A sid \in SessionIds :
        /\ Turns(sessions, sid) = TurnsOf(LastN(log[sid], 10))
        /\ Len(Turns(sessions, sid)) % 2 = 0
        /\ \A i \in 1..Len(Turns(sessions, sid)) :
              Turns(sessions, sid)[i].role = IF i % 2 = 1 THEN "user" ELSE "model"

\* A session that had more than ten exchanges, the dropped first one unlike
\* the second, and holds the turns of the last ten.
C9_Witness ==
    \E sid \in SessionIds :
        /\ Len(log[sid]) > 10
        /\ log[sid][1] # log[sid][2]
        /\ Len(Turns(sessions, sid)) = MAX_HISTORY

\* C10: a /chat request that ends in an error response leaves the turns
\* stored for every session as they were (it may create the session, empty).
C10_ErrorKeepsHistories ==
    [][(last'.op = "chat" /\ last'.status # 200)
        => \A sid \in SessionIds : Turns(sessions', sid) = Turns(sessions, sid)]_vars

\* A request failed in the model call on a session that holds turns, and
\* another failed on a session that was created without any turn.
C10_Witness ==
    /\ LastChat
    /\ last.status # 200
    /\ last.calls # <<>>
    /\ Len(Turns(sessions, LastSid)) >= 2
    /\ \E sid \in DOMAIN sessions : sessions[sid] = <<>>

====
